---- MODULE Spec2Model ----
(***************************************************************************)
(* Classification-restriction engine of CDS-Refact                         *)
(* (src/src/transform/classif_restrictor.py): the forbidden-marking test,  *)
(* the restrictiveness comparator, the most-restrictive-marking search and *)
(* the redaction/stamping pass.                                            *)
(*                                                                         *)
(* Python values are tagged records:                                       *)
(*   None            [t |-> "none"]                                        *)
(*   str             [t |-> "str",  s |-> <<characters>>]                  *)
(*   list            [t |-> "list", items |-> <<values>>]                  *)
(*   dict            [t |-> "dict", kv |-> <<[k |-> key, v |-> value]>>]   *)
(* A dict keeps its entries in insertion order, as Python does; its keys   *)
(* are distinct.  A str is a sequence of one-character strings so that     *)
(* upper(), startswith() and the substring test are computed.              *)
(***************************************************************************)
EXTENDS Integers, Sequences, FiniteSets, TLC

VARIABLES
    standard_object,      \* the document apply_restrictions is called on
    policy,               \* the restrictions configuration of the run
    pc,                   \* "idle", "loop", "located", "done", "raised"
    stack,                \* find_most_restrictive_valid_ism: its stack
    trail,                \* the path in the document of each item on the stack
    popped,               \* the paths of the items popped so far, in order
    most_restrictive,     \* find_most_restrictive_valid_ism: best so far
    most_restrictive_ism, \* what find_most_restrictive_valid_ism returned
    early,                \* whether it returned from inside the loop
    result,               \* what apply_restrictions returned
    round,                \* 1: the call on the input, 2: on its own result
    first_object,         \* the first call's input
    first_result,         \* the first call's result
    marking,              \* the marking given to is_classif_too_high
    verdict,              \* its outcome: "pending", "true", "false", "raise"
    ism_a,                \* the markings given to is_more_restrictive,
    ism_b,                \*   two at a time
    ism_c,
    answer,               \* "pending", or the outcome of each of its calls
    calls,                \* two concurrent calls of apply_restrictions
    cells,                \* the cells that hold their most_restrictive
    standard_objects,     \* process_objects: the transformed objects
    position,             \* process_objects: the object its loop is at
    processed_objects,    \* process_objects: its list of that name
    returned              \* process_objects: what it returned

vars ==
    <<standard_object, policy, pc, stack, trail, popped, most_restrictive,
      most_restrictive_ism, early, result, round, first_object, first_result,
      marking, verdict, ism_a, ism_b, ism_c, answer, calls, cells,
      standard_objects, position, processed_objects, returned>>

cmpvars == <<ism_a, ism_b, ism_c, answer>>

pairvars == <<calls, cells>>

batchvars == <<standard_objects, position, processed_objects, returned>>

\* ------------------------------------------------------------------ values

None == [t |-> "none"]

Str(cs) == [t |-> "str", s |-> cs]

List(xs) == [t |-> "list", items |-> xs]

Dict(ents) == [t |-> "dict", kv |-> ents]

Ent(key, val) == [k |-> key, v |-> val]

Num(i) == [t |-> "int", n |-> i]

Bool(x) == [t |-> "bool", b |-> x]

EmptyList == List(<<>>)

EmptyStr == Str(<<>>)

EmptyDict == Dict(<<>>)

\* Python truth value of a value: None, "", [], {}, 0 and False are false.
Truthy(v) ==
    CASE v.t = "none" -> FALSE
      [] v.t = "str"  -> v.s # <<>>
      [] v.t = "list" -> v.items # <<>>
      [] v.t = "dict" -> v.kv # <<>>
      [] v.t = "int"  -> v.n # 0
      [] v.t = "bool" -> v.b

isinstance_dict(v) == v.t = "dict"

isinstance_list(v) == v.t = "list"

\* key in d
HasKey(d, key) == \E i \in DOMAIN d.kv : d.kv[i].k = key

\* d.get(key, default)
DictGet(d, key, default) ==
    IF HasKey(d, key)
    THEN d.kv[CHOOSE i \in DOMAIN d.kv : d.kv[i].k = key].v
    ELSE default

\* d[key] = val on a dict: an existing key keeps its place, a new key is
\* appended.
DictSet(d, key, val) ==
    IF HasKey(d, key)
    THEN Dict([i \in DOMAIN d.kv |->
                 IF d.kv[i].k = key THEN Ent(key, val) ELSE d.kv[i]])
    ELSE Dict(Append(d.kv, Ent(key, val)))

\* list(d.values())
DictValues(d) == [i \in DOMAIN d.kv |-> d.kv[i].v]

\* Whether Python can iterate v (set(v), "x in v", a generator over v).
Iterable(v) == v.t \in {"str", "list", "dict"}

\* Whether v can be a set element or a dict key.
Hashable(v) == v.t \in {"none", "str", "int", "bool"}

\* Whether set(v) raises TypeError: v is not iterable, or holds an
\* unhashable element.
SetRaises(v) ==
    \/ ~Iterable(v)
    \/ /\ v.t = "list"
       /\ \E i \in DOMAIN v.items : ~Hashable(v.items[i])

\* set(v) for a list of strings or a string (whose elements are its
\* characters).
SetOf(v) ==
    CASE v.t = "list" -> {v.items[i] : i \in DOMAIN v.items}
      [] v.t = "str"  -> {Str(<<v.s[i]>>) : i \in DOMAIN v.s}
      [] OTHER        -> {}

StrSet(seq) == {Str(seq[i]) : i \in DOMAIN seq}

\* ----------------------------------------------------------------- strings

LowerCase ==
    <<"a","b","c","d","e","f","g","h","i","j","k","l","m",
      "n","o","p","q","r","s","t","u","v","w","x","y","z">>

UpperCase ==
    <<"A","B","C","D","E","F","G","H","I","J","K","L","M",
      "N","O","P","Q","R","S","T","U","V","W","X","Y","Z">>

UpperChar(c) ==
    IF \E i \in DOMAIN LowerCase : LowerCase[i] = c
    THEN UpperCase[CHOOSE i \in DOMAIN LowerCase : LowerCase[i] = c]
    ELSE c

\* str.upper()
upper(cs) == [i \in DOMAIN cs |-> UpperChar(cs[i])]

\* term in text, both strings
Contains(term, text) ==
    \E off \in 0..(Len(text) - Len(term)) :
        SubSeq(text, off + 1, off + Len(term)) = term

\* c.startswith(prefix)
startswith(cs, prefix) ==
    /\ Len(cs) >= Len(prefix)
    /\ SubSeq(cs, 1, Len(prefix)) = prefix

\* x in v for a string x: membership in a list, substring of a string.
In(cs, v) ==
    CASE v.t = "list" -> Str(cs) \in SetOf(v)
      [] v.t = "str"  -> Contains(cs, v.s)
      [] OTHER        -> FALSE

TS == <<"T","S">>

U == <<"U">>

FGI == <<"F","G","I">>

NOFORN == <<"N","O","F","O","R","N">>

REL == <<"R","E","L">>

\* ------------------------------------------------------- is_classif_too_high

\* Whether is_classif_too_high raises: the conditions of its "or" chain are
\* evaluated left to right and the first true one ends the evaluation.
is_classif_too_high_raises(ism, config) ==
    IF ~Truthy(ism) THEN FALSE
    ELSE IF ~isinstance_dict(ism) THEN TRUE
    ELSE IF DictGet(ism, "classification", None) = Str(TS) THEN FALSE
    ELSE LET sci == DictGet(ism, "sciControls", EmptyList)
             dis == DictGet(ism, "disseminationControls", EmptyList)
             ban == DictGet(ism, "banner", EmptyStr)
         IN  IF SetRaises(sci) THEN TRUE
             ELSE IF SetOf(sci) \cap StrSet(config.forbidden_sci) # {} THEN FALSE
             ELSE IF SetRaises(dis) THEN TRUE
             ELSE IF SetOf(dis) \cap StrSet(config.forbidden_controls) # {} THEN FALSE
             ELSE IF config.forbidden_terms = <<>> THEN FALSE
             ELSE ban.t # "str"

\* is_classif_too_high without the test of line 24.
is_classif_too_high_no_top_tier(ism, config) ==
    IF ~Truthy(ism) \/ ~isinstance_dict(ism) THEN FALSE
    ELSE LET sci == DictGet(ism, "sciControls", EmptyList)
             dis == DictGet(ism, "disseminationControls", EmptyList)
             ban == DictGet(ism, "banner", EmptyStr)
         IN  \/ SetOf(sci) \cap StrSet(config.forbidden_sci) # {}
             \/ SetOf(dis) \cap StrSet(config.forbidden_controls) # {}
             \/ /\ ban.t = "str"
                /\ \E i \in DOMAIN config.forbidden_terms :
                       Contains(config.forbidden_terms[i], upper(ban.s))

\* The value is_classif_too_high returns when it does not raise.
is_classif_too_high(ism, config) ==
    IF ~Truthy(ism) \/ ~isinstance_dict(ism) THEN FALSE
    ELSE LET sci == DictGet(ism, "sciControls", EmptyList)
             dis == DictGet(ism, "disseminationControls", EmptyList)
             ban == DictGet(ism, "banner", EmptyStr)
         IN  \/ DictGet(ism, "classification", None) = Str(TS)
             \/ SetOf(sci) \cap StrSet(config.forbidden_sci) # {}
             \/ SetOf(dis) \cap StrSet(config.forbidden_controls) # {}
             \/ /\ ban.t = "str"
                /\ \E i \in DOMAIN config.forbidden_terms :
                       Contains(config.forbidden_terms[i], upper(ban.s))

\* ------------------------------------------------------- is_more_restrictive

\* AnyFgi that looks for the element "FGI" itself and not for the prefix.
AnyFgi_whole_element(v) ==
    \E c \in SetOf(v) : c.t = "str" /\ c.s = FGI

\* any(c.startswith("FGI") for c in v): the generator stops at the first
\* element with the prefix.
AnyFgi(v) ==
    \E c \in SetOf(v) : c.t = "str" /\ startswith(c.s, FGI)

\* Whether that any() raises: v is not iterable, or an element that is not a
\* string is reached before an element with the prefix.
AnyFgiRaises(v) ==
    \/ ~Iterable(v)
    \/ /\ v.t = "list"
       /\ \E i \in DOMAIN v.items :
              /\ v.items[i].t # "str"
              /\ \A j \in 1..(i - 1) :
                     v.items[j].t = "str" => ~startswith(v.items[j].s, FGI)

\* ClassifRank with a symbol that the table lacks ranked above the table and
\* not at 0.
ClassifRank_unknown_on_top(classif, config) ==
    IF classif.t = "str" /\ classif.s \in DOMAIN config.classifications
    THEN config.classifications[classif.s]
    ELSE 9

\* config["classifications"].get(classif, 0)
ClassifRank(classif, config) ==
    IF classif.t = "str" /\ classif.s \in DOMAIN config.classifications
    THEN config.classifications[classif.s]
    ELSE 0

\* BothRel with "or" in the place of "and".
BothRel_either(dis1, dis2) == In(REL, dis1) \/ In(REL, dis2)

\* The test of line 81, `if rel1 and rel2`, rel1 and rel2 being
\* `"REL" in ism.get("disseminationControls", [])` (lines 78-79).
BothRel(dis1, dis2) == In(REL, dis1) /\ In(REL, dis2)

\* RelTier without its last statement: the sizes of the intersections with
\* the special groups are compared whether or not the intersections differ.
RelTier_groups_only(ism1, ism2, config) ==
    LET ism1_release == SetOf(DictGet(ism1, "releasableTo", EmptyList))
        ism2_release == SetOf(DictGet(ism2, "releasableTo", EmptyList))
        ism1_groups == ism1_release \cap StrSet(config.special_groups)
        ism2_groups == ism2_release \cap StrSet(config.special_groups)
    IN  Cardinality(ism1_groups) < Cardinality(ism2_groups)

\* The body of `if rel1 and rel2:` (lines 82-90), which always returns.
RelTier(ism1, ism2, config) ==
    LET ism1_release == SetOf(DictGet(ism1, "releasableTo", EmptyList))
        ism2_release == SetOf(DictGet(ism2, "releasableTo", EmptyList))
        ism1_groups == ism1_release \cap StrSet(config.special_groups)
        ism2_groups == ism2_release \cap StrSet(config.special_groups)
    IN  IF ism1_groups # ism2_groups
        THEN Cardinality(ism1_groups) < Cardinality(ism2_groups)
        ELSE Cardinality(ism1_release) < Cardinality(ism2_release)

\* ClassifTier with >= in the place of >.
ClassifTier_or_equal(ism1, ism2, config) ==
    LET classif1 == DictGet(ism1, "classification", Str(U))
        classif2 == DictGet(ism2, "classification", Str(U))
    IN  ClassifRank(classif1, config) >= ClassifRank(classif2, config)

\* ClassifTier with != in the place of >.
ClassifTier_differs(ism1, ism2, config) ==
    LET classif1 == DictGet(ism1, "classification", Str(U))
        classif2 == DictGet(ism2, "classification", Str(U))
    IN  ClassifRank(classif1, config) # ClassifRank(classif2, config)

\* Lines 93-98: a missing classification is taken as "U".
ClassifTier(ism1, ism2, config) ==
    LET classif1 == DictGet(ism1, "classification", Str(U))
        classif2 == DictGet(ism2, "classification", Str(U))
    IN  ClassifRank(classif1, config) > ClassifRank(classif2, config)

\* Whether is_more_restrictive raises, its statements taken in order.
is_more_restrictive_raises(ism1, ism2, config) ==
    IF ~Truthy(ism1) \/ ~Truthy(ism2) THEN FALSE
    ELSE IF ~isinstance_dict(ism1) \/ ~isinstance_dict(ism2) THEN TRUE
    ELSE LET sci1 == DictGet(ism1, "sciControls", EmptyList)
             sci2 == DictGet(ism2, "sciControls", EmptyList)
             dis1 == DictGet(ism1, "disseminationControls", EmptyList)
             dis2 == DictGet(ism2, "disseminationControls", EmptyList)
             rel1 == DictGet(ism1, "releasableTo", EmptyList)
             rel2 == DictGet(ism2, "releasableTo", EmptyList)
         IN  IF AnyFgiRaises(sci1) \/ AnyFgiRaises(sci2) THEN TRUE
             ELSE IF AnyFgi(sci1) # AnyFgi(sci2) THEN FALSE
             ELSE IF ~Iterable(dis1) \/ ~Iterable(dis2) THEN TRUE
             ELSE IF In(NOFORN, dis1) # In(NOFORN, dis2) THEN FALSE
             ELSE IF In(REL, dis1) /\ In(REL, dis2)
                  THEN SetRaises(rel1) \/ SetRaises(rel2)
                  ELSE \/ ~Hashable(DictGet(ism1, "classification", Str(U)))
                       \/ ~Hashable(DictGet(ism2, "classification", Str(U)))

\* The value is_more_restrictive returns when it does not raise.
is_more_restrictive(ism1, ism2, config) ==
    IF ~Truthy(ism1) \/ ~Truthy(ism2) THEN FALSE
    ELSE IF ~isinstance_dict(ism1) \/ ~isinstance_dict(ism2) THEN FALSE
    ELSE LET sci1 == DictGet(ism1, "sciControls", EmptyList)
             sci2 == DictGet(ism2, "sciControls", EmptyList)
             dis1 == DictGet(ism1, "disseminationControls", EmptyList)
             dis2 == DictGet(ism2, "disseminationControls", EmptyList)
             ism1_fgi == AnyFgi(sci1)
             ism2_fgi == AnyFgi(sci2)
             ism1_noforn == In(NOFORN, dis1)
             ism2_noforn == In(NOFORN, dis2)
         IN  IF ism1_fgi # ism2_fgi THEN ism1_fgi
             ELSE IF ism1_noforn # ism2_noforn THEN ism1_noforn
             ELSE IF BothRel(dis1, dis2)
                  THEN RelTier(ism1, ism2, config)
                  ELSE ClassifTier(ism1, ism2, config)

\* ------------------------------------------- find_most_restrictive_valid_ism

\* IsCandidate without the forbidden-marking test.
IsCandidate_unfiltered(m, cfg) == Truthy(m)

\* The test of line 128: the marking is present and not forbidden.
IsCandidate(m, cfg) == Truthy(m) /\ ~is_classif_too_high(m, cfg)

\* The test of lines 132-134.
Replaces(m, best, cfg) == best = None \/ is_more_restrictive(m, best, cfg)

\* Pushed without the list branch of lines 139-141.
Pushed_dicts_only(item) ==
    IF isinstance_dict(item) THEN DictValues(item) ELSE <<>>

\* What the loop pushes for a popped item (lines 138 and 141).
Pushed(item) ==
    IF isinstance_dict(item) THEN DictValues(item)
    ELSE IF isinstance_list(item) THEN item.items
    ELSE <<>>

\* One iteration of the while loop (lines 122-141) on a non-empty stack:
\* ctl is "continue", "return" (the return of line 131) or "raise".
LoopBody(stk, best, cfg) ==
    LET item == stk[Len(stk)]
        rest == SubSeq(stk, 1, Len(stk) - 1)
        next == rest \o Pushed(item)
        m    == DictGet(item, "ism", None)
        go(b) == [ctl |-> "continue", stack |-> next, best |-> b, ret |-> None]
    IN  IF isinstance_dict(item) /\ HasKey(item, "ism") /\ Truthy(m)
        THEN IF is_classif_too_high_raises(m, cfg)
             THEN [ctl |-> "raise", stack |-> rest, best |-> best, ret |-> None]
             ELSE IF ~IsCandidate(m, cfg) THEN go(best)
             ELSE IF DictGet(m, "classification", None) = Str(TS)
             THEN [ctl |-> "return", stack |-> rest, best |-> best, ret |-> m]
             ELSE IF best # None /\ is_more_restrictive_raises(m, best, cfg)
             THEN [ctl |-> "raise", stack |-> rest, best |-> best, ret |-> None]
             ELSE IF Replaces(m, best, cfg) THEN go(m)
             ELSE go(best)
        ELSE go(best)

RECURSIVE LocateFrom(_, _, _)
\* The loop run to its end: [ctl |-> "return" or "raise", ret |-> value].
LocateFrom(stk, best, cfg) ==
    IF stk = <<>> THEN [ctl |-> "return", ret |-> best]
    ELSE LET r == LoopBody(stk, best, cfg)
         IN  IF r.ctl = "continue" THEN LocateFrom(r.stack, r.best, cfg)
             ELSE [ctl |-> r.ctl, ret |-> r.ret]

find_most_restrictive_valid_ism(obj, cfg) == LocateFrom(<<obj>>, None, cfg)

\* -------------------------------------------------------- apply_restrictions

\* TooHighItem taking a marking that is None or empty for a forbidden one.
TooHighItem_absent_forbidden(item, cfg) ==
    /\ HasKey(item, "ism")
    /\ \/ ~Truthy(DictGet(item, "ism", None))
       \/ is_classif_too_high(DictGet(item, "ism", None), cfg)

\* The test of line 176 (item["ism"] is read only when the key is there).
TooHighItem(item, cfg) ==
    HasKey(item, "ism") /\ is_classif_too_high(DictGet(item, "ism", None), cfg)

RECURSIVE process_item_raises(_, _)
\* Whether process_item raises: is_classif_too_high raises on a node it
\* reaches (the children of a removed node are not reached).
process_item_raises(item, cfg) ==
    IF isinstance_dict(item)
    THEN IF HasKey(item, "ism")
            /\ is_classif_too_high_raises(DictGet(item, "ism", None), cfg)
         THEN TRUE
         ELSE IF TooHighItem(item, cfg) THEN FALSE
         ELSE \E i \in DOMAIN item.kv : process_item_raises(item.kv[i].v, cfg)
    ELSE IF isinstance_list(item)
    THEN \E i \in DOMAIN item.items : process_item_raises(item.items[i], cfg)
    ELSE FALSE

RECURSIVE process_item_skips_lists(_, _)
\* process_item without the list branch of lines 182-184.
process_item_skips_lists(item, cfg) ==
    IF isinstance_dict(item)
    THEN IF TooHighItem(item, cfg) THEN None
         ELSE Dict([i \in DOMAIN item.kv |->
                      Ent(item.kv[i].k, process_item_skips_lists(item.kv[i].v, cfg))])
    ELSE item

RECURSIVE process_item_drops_removed(_, _)
\* process_item that leaves out of a dict the entries whose value was
\* removed and does not keep them with the value None.
process_item_drops_removed(item, cfg) ==
    IF isinstance_dict(item)
    THEN IF TooHighItem(item, cfg) THEN None
         ELSE LET done == [i \in DOMAIN item.kv |->
                             Ent(item.kv[i].k,
                                 process_item_drops_removed(item.kv[i].v, cfg))]
                  kept(e) == e.v # None
              IN  Dict(SelectSeq(done, kept))
    ELSE IF isinstance_list(item)
    THEN List([i \in DOMAIN item.items |->
                 process_item_drops_removed(item.items[i], cfg)])
    ELSE item

RECURSIVE process_item(_, _)
\* Lines 173-186.
process_item(item, cfg) ==
    IF isinstance_dict(item)
    THEN IF TooHighItem(item, cfg) THEN None
         ELSE Dict([i \in DOMAIN item.kv |->
                      Ent(item.kv[i].k, process_item(item.kv[i].v, cfg))])
    ELSE IF isinstance_list(item)
    THEN List([i \in DOMAIN item.items |-> process_item(item.items[i], cfg)])
    ELSE item

\* process_item working in place: it returns the object it was given unless
\* it removes it.
process_item_in_place(item, cfg) == ~TooHighItem(item, cfg)

\* Whether the object process_item returns is the very object it was given:
\* only at line 186, `return item`; the comprehensions of lines 181 and 184
\* build a new dict or list and line 178 returns None.
process_item_returns_argument(item, cfg) ==
    ~isinstance_dict(item) /\ ~isinstance_list(item)

\* Stamped with an overallClassification that the object already has left
\* as it is.
Stamped_keeps_existing(obj, m, cfg) ==
    LET processed_object == process_item(obj, cfg)
    IN  IF isinstance_dict(processed_object)
           /\ ~HasKey(processed_object, "overallClassification")
        THEN DictSet(processed_object, "overallClassification", m)
        ELSE processed_object

\* Stamped with a removed root turned into a mapping that has only the
\* overallClassification.
Stamped_stamps_removed_root(obj, m, cfg) ==
    LET processed_object == process_item(obj, cfg)
    IN  IF isinstance_dict(processed_object)
        THEN DictSet(processed_object, "overallClassification", m)
        ELSE IF processed_object = None
        THEN DictSet(EmptyDict, "overallClassification", m)
        ELSE processed_object

\* Lines 189-193: the processed object, stamped when it is a dict.
Stamped(obj, m, cfg) ==
    LET processed_object == process_item(obj, cfg)
    IN  IF isinstance_dict(processed_object)
        THEN DictSet(processed_object, "overallClassification", m)
        ELSE processed_object

\* Restricted without the return of lines 168-171.
Restricted_always_stamps(obj, m, cfg) == Stamped(obj, m, cfg)

\* Lines 168-193: what apply_restrictions returns once the marking m is
\* located, when process_item does not raise.
Restricted(obj, m, cfg) ==
    IF ~Truthy(m) THEN None ELSE Stamped(obj, m, cfg)

\* ------------------------------------------------------------------ inputs

MaxNodes == 3

CONF == <<"C">>

SEC == <<"S">>

HCS == <<"H","C","S">>

ORCON == <<"O","R","C","O","N">>

FGI_X == <<"F","G","I","-","X">>

\* A key left out of a dict by the builders below.
Absent == [t |-> "absent"]

Present(e) == e.v # Absent

\* A dict of the entries whose value is not Absent.
MkDict(ents) == Dict(SelectSeq(ents, Present))

StrList(seq) == List([i \in DOMAIN seq |-> Str(seq[i])])

Marking(classification, sciControls, disseminationControls, releasableTo, banner) ==
    MkDict(<<Ent("banner", banner),
             Ent("classification", classification),
             Ent("sciControls", sciControls),
             Ent("disseminationControls", disseminationControls),
             Ent("releasableTo", releasableTo)>>)

ClassifTable == (U :> 1) @@ (CONF :> 2) @@ (SEC :> 3) @@ (TS :> 4)

Policy(sci, controls, terms, groups) ==
    [forbidden_sci |-> sci, forbidden_controls |-> controls,
     forbidden_terms |-> terms, special_groups |-> groups,
     classifications |-> ClassifTable]

\* extract_ism of object_parser.py: the marking built from a record's ACM.
extract_ism(acm) ==
    Dict(<<Ent("banner", DictGet(acm, "banner", None)),
           Ent("classification", DictGet(acm, "classif", None)),
           Ent("ownerProducer", DictGet(acm, "owner_prod", None)),
           Ent("releaseableTo", DictGet(acm, "rel_to", None)),
           Ent("disseminationControls", DictGet(acm, "dissem_ctrls", None))>>)

\* The markings of the documents: TS (forbidden); REL to one entity at U, REL
\* to two entities at S and a plain U (the first is more restrictive than
\* the second and the second than the third, the first and the third are
\* not ordered); an empty marking; and extract_ism's marking of an ACM that
\* has only a classification, whose other fields are None.
mTS == Marking(Str(TS), Absent, Absent, Absent, Absent)

mRelOneU == Marking(Str(U), Absent, StrList(<<REL>>), StrList(<<<<"x">>>>), Absent)

mRelTwoS == Marking(Str(SEC), Absent, StrList(<<REL>>), StrList(<<<<"x">>, <<"y">>>>), Absent)

mPlainU == Marking(Str(U), Absent, Absent, Absent, Absent)

mPartial == extract_ism(Dict(<<Ent("classif", Str(U))>>))

DocMarkings == {mTS, mRelOneU, mRelTwoS, mPlainU, EmptyDict, mPartial}

DocPolicies == {Policy(<<HCS>>, <<ORCON>>, <<<<"N","F">>>>, <<<<"g">>>>)}

\* The parent of each node 2..n of a document of n nodes.
Parents(n) == {p \in [2..n -> 1..n] : \A i \in 2..n : p[i] < i}

RECURSIVE KidsFrom(_, _, _, _)
\* The children of node i among from..n, in order.
KidsFrom(i, from, n, par) ==
    IF from > n THEN <<>>
    ELSE (IF par[from] = i THEN <<from>> ELSE <<>>) \o KidsFrom(i, from + 1, n, par)

RECURSIVE Build(_, _, _, _)
\* Node i as a dict: its "ism" (unless Absent), then an only child under
\* "child" or several children as the list under "items".
Build(i, n, par, mk) ==
    LET kids == KidsFrom(i, i + 1, n, par)
    IN  MkDict(<<Ent("ism", mk[i]),
                 Ent("child", IF Len(kids) = 1 THEN Build(kids[1], n, par, mk)
                              ELSE Absent),
                 Ent("items", IF Len(kids) > 1
                              THEN List([k \in DOMAIN kids |-> Build(kids[k], n, par, mk)])
                              ELSE Absent)>>)

Documents ==
    UNION {{Build(1, n, par, mk) :
               par \in Parents(n), mk \in [1..n -> DocMarkings \cup {Absent}]} :
           n \in 1..MaxNodes}

\* ---------------------------------------------------------- the redaction run

docvars ==
    <<standard_object, pc, stack, trail, popped, most_restrictive,
      most_restrictive_ism, early, result, round, first_object, first_result>>

Init ==
    /\ policy \in DocPolicies
    /\ standard_object \in Documents
    /\ first_object = standard_object
    /\ pc = "idle"
    /\ stack = <<>>
    /\ trail = <<>>
    /\ popped = <<>>
    /\ most_restrictive = None
    /\ most_restrictive_ism = None
    /\ early = FALSE
    /\ result = None
    /\ round = 1
    /\ first_result = None
    /\ marking = None
    /\ verdict = "unused"
    /\ ism_a = None
    /\ ism_b = None
    /\ ism_c = None
    /\ answer = "unused"
    /\ calls = <<>>
    /\ cells = <<>>
    /\ standard_objects = <<>>
    /\ position = 0
    /\ processed_objects = <<>>
    /\ returned = None

\* apply_restrictions is called: line 166 enters
\* find_most_restrictive_valid_ism, lines 118-119.
Call ==
    /\ pc = "idle"
    /\ pc' = "loop"
    /\ stack' = <<standard_object>>
    /\ trail' = << <<>> >>
    /\ popped' = <<>>
    /\ most_restrictive' = None
    /\ UNCHANGED <<standard_object, policy, most_restrictive_ism, early, result,
                   round, first_object, first_result, marking, verdict, cmpvars, pairvars, batchvars>>

\* One iteration of the loop, lines 121-141.
LoopStep ==
    /\ pc = "loop"
    /\ stack # <<>>
    /\ LET r == LoopBody(stack, most_restrictive, policy)
           here == trail[Len(trail)]
       IN  /\ stack' = r.stack
           \* line 122 pops one item; lines 138 and 141 push its children
           /\ popped' = Append(popped, here)
           /\ trail' = SubSeq(trail, 1, Len(trail) - 1)
                          \o [i \in 1..(Len(r.stack) + 1 - Len(stack)) |-> here \o <<i>>]
           /\ most_restrictive' = r.best
           /\ early' = (r.ctl = "return")
           /\ most_restrictive_ism' =
                  IF r.ctl = "return" THEN r.ret ELSE most_restrictive_ism
           /\ pc' = CASE r.ctl = "continue" -> "loop"
                      [] r.ctl = "return"   -> "located"
                      [] r.ctl = "raise"    -> "raised"
    /\ UNCHANGED <<standard_object, policy, result, round, first_object,
                   first_result, marking, verdict, cmpvars, pairvars, batchvars>>

\* The stack is empty: line 143.
LoopExit ==
    /\ pc = "loop"
    /\ stack = <<>>
    /\ most_restrictive_ism' = most_restrictive
    /\ pc' = "located"
    /\ UNCHANGED <<standard_object, policy, stack, trail, popped, most_restrictive, early,
                   result, round, first_object, first_result, marking, verdict, cmpvars, pairvars, batchvars>>

\* Lines 168-193.
Restrict ==
    /\ pc = "located"
    /\ IF Truthy(most_restrictive_ism)
          /\ process_item_raises(standard_object, policy)
       THEN pc' = "raised" /\ UNCHANGED <<standard_object, result, first_result>>
       ELSE /\ pc' = "done"
            /\ result' = Restricted(standard_object, most_restrictive_ism, policy)
            /\ first_result' = IF round = 1 THEN result' ELSE first_result
            \* the assignment of line 191 writes into the caller's object
            \* when processed_object is that object
            /\ standard_object' =
                   IF /\ Truthy(most_restrictive_ism)
                      /\ isinstance_dict(result')
                      /\ process_item_returns_argument(standard_object, policy)
                   THEN result'
                   ELSE standard_object
    /\ UNCHANGED <<policy, stack, trail, popped, most_restrictive,
                   most_restrictive_ism, early, round, first_object, marking,
                   verdict, cmpvars, pairvars, batchvars>>

\* The returned document is given to apply_restrictions again.
Again ==
    /\ pc = "done"
    /\ round = 1
    /\ isinstance_dict(result)
    /\ standard_object' = result
    /\ round' = 2
    /\ pc' = "idle"
    /\ stack' = <<>>
    /\ trail' = <<>>
    /\ popped' = <<>>
    /\ most_restrictive' = None
    /\ most_restrictive_ism' = None
    /\ early' = FALSE
    /\ result' = None
    /\ UNCHANGED <<policy, first_object, first_result, marking, verdict, cmpvars, pairvars, batchvars>>

Next == Call \/ LoopStep \/ LoopExit \/ Restrict \/ Again

Spec == Init /\ [][Next]_vars

\* ------------------------------------------------ the forbidden-marking test

BannerLower == <<"s","/","/","n","f">>

BannerUpper == <<"S","/","/","N","F">>

\* ACMs of source records: an empty one, one with only a classification, and
\* complete ones.
TestAcms ==
    {EmptyDict,
     Dict(<<Ent("classif", Str(U))>>),
     Dict(<<Ent("classif", Str(TS))>>),
     Dict(<<Ent("banner", Str(BannerUpper)), Ent("classif", Str(U)),
            Ent("dissem_ctrls", StrList(<<ORCON>>))>>),
     Dict(<<Ent("banner", Str(U)), Ent("classif", Str(U)),
            Ent("dissem_ctrls", EmptyList)>>)}

\* The markings the test is run on: the markings extract_ism makes of these
\* ACMs, and every combination of a missing field, a
\* None field (as extract_ism leaves it) and values that meet or miss the
\* policies below; and the two absent markings, None and {}.
TestMarkings ==
    {Marking(c, s, d, Absent, b) :
        c \in {Absent, None, Str(U), Str(TS)},
        s \in {Absent, None, StrList(<<HCS>>), StrList(<<FGI_X>>)},
        d \in {Absent, None, StrList(<<ORCON>>), StrList(<<NOFORN, REL>>)},
        b \in {Absent, None, Str(U), Str(BannerLower), Str(BannerUpper)}}
    \cup {None}
    \cup {extract_ism(acm) : acm \in TestAcms}

TestPolicies ==
    {Policy(s, c, t, <<>>) :
        s \in {<<>>, <<HCS>>},
        c \in {<<>>, <<ORCON>>},
        t \in {<<>>, <<<<"N","F">>>>, <<<<"n","f">>>>, <<<<"X">>, <<"N","f">>>>}}

InitForbidden ==
    /\ policy \in TestPolicies
    /\ marking \in TestMarkings
    /\ verdict = "pending"
    /\ standard_object = None
    /\ first_object = None
    /\ pc = "off"
    /\ stack = <<>>
    /\ trail = <<>>
    /\ popped = <<>>
    /\ most_restrictive = None
    /\ most_restrictive_ism = None
    /\ early = FALSE
    /\ result = None
    /\ round = 1
    /\ first_result = None
    /\ ism_a = None
    /\ ism_b = None
    /\ ism_c = None
    /\ answer = "unused"
    /\ calls = <<>>
    /\ cells = <<>>
    /\ standard_objects = <<>>
    /\ position = 0
    /\ processed_objects = <<>>
    /\ returned = None

\* is_classif_too_high(marking, policy) is called.
TestForbidden ==
    /\ verdict = "pending"
    /\ verdict' = IF is_classif_too_high_raises(marking, policy) THEN "raise"
                  ELSE IF is_classif_too_high(marking, policy) THEN "true"
                  ELSE "false"
    /\ UNCHANGED <<marking, policy, docvars, cmpvars, pairvars, batchvars>>

NextForbidden == TestForbidden

SpecForbidden == InitForbidden /\ [][NextForbidden]_vars

\* -------------------------------------------------------- the comparator

\* A policy with one special group whose table lacks "C".
ComparePolicy ==
    [Policy(<<>>, <<>>, <<>>, <<<<"g">>>>)
        EXCEPT !.classifications = (U :> 1) @@ (SEC :> 3) @@ (TS :> 4)]

ComparePolicies == {ComparePolicy}

\* The markings is_more_restrictive is run on: every combination of a field
\* that is missing or has one of the values that the tiers tell apart; the
\* combination with every field missing is {}; and None.
CompareMarkings ==
    {Marking(c, s, d, r, Absent) :
        c \in {Absent, Str(U), Str(CONF), Str(SEC)},
        s \in {Absent, StrList(<<FGI_X>>)},
        d \in {Absent, StrList(<<NOFORN>>), StrList(<<REL>>)},
        r \in {Absent, StrList(<<<<"x">>, <<"y">>>>), StrList(<<<<"g">>>>)}}
    \cup {None}

\* The markings a third call is run on, after two calls on markings of the
\* set above: the ones that have neither an FGI control nor NOFORN and are
\* releasable to nobody or to the special group.
CompareThirds ==
    {Marking(c, Absent, d, r, Absent) :
        c \in {Absent, Str(U), Str(CONF), Str(SEC)},
        d \in {Absent, StrList(<<REL>>)},
        r \in {Absent, StrList(<<<<"g">>>>)}}

\* No call has been made.
Pending == [ab |-> "pending", ba |-> "pending", bc |-> "pending",
            ac |-> "pending", aa |-> "pending"]

InitCompare ==
    /\ policy \in ComparePolicies
    /\ ism_a \in CompareMarkings
    /\ ism_b \in CompareMarkings
    /\ ism_c \in CompareThirds
    /\ answer = Pending
    /\ calls = <<>>
    /\ cells = <<>>
    /\ standard_objects = <<>>
    /\ position = 0
    /\ processed_objects = <<>>
    /\ returned = None
    /\ marking = None
    /\ verdict = "unused"
    /\ standard_object = None
    /\ first_object = None
    /\ pc = "off"
    /\ stack = <<>>
    /\ trail = <<>>
    /\ popped = <<>>
    /\ most_restrictive = None
    /\ most_restrictive_ism = None
    /\ early = FALSE
    /\ result = None
    /\ round = 1
    /\ first_result = None

\* The outcome of the call is_more_restrictive(ism1, ism2, config).
Outcome(ism1, ism2, config) ==
    IF is_more_restrictive_raises(ism1, ism2, config) THEN "raise"
    ELSE IF is_more_restrictive(ism1, ism2, config) THEN "true"
    ELSE "false"

\* is_more_restrictive is called on the pairs of the three markings.
Compare ==
    /\ answer = Pending
    /\ answer' = [ab |-> Outcome(ism_a, ism_b, policy),
                  ba |-> Outcome(ism_b, ism_a, policy),
                  bc |-> Outcome(ism_b, ism_c, policy),
                  ac |-> Outcome(ism_a, ism_c, policy),
                  aa |-> Outcome(ism_a, ism_a, policy)]
    /\ UNCHANGED <<ism_a, ism_b, ism_c, policy, marking, verdict, docvars,
                   pairvars, batchvars>>

NextCompare == Compare

SpecCompare == InitCompare /\ [][NextCompare]_vars

\* ------------------------------------------------------ two concurrent calls

\* apply_restrictions as a whole (lines 166-193): how the call ends, "done"
\* or "raised", and what it returns.
apply_restrictions(obj, config) ==
    LET located == find_most_restrictive_valid_ism(obj, config)
    IN  IF located.ctl = "raise" THEN [pc |-> "raised", result |-> None]
        ELSE IF Truthy(located.ret) /\ process_item_raises(obj, config)
        THEN [pc |-> "raised", result |-> None]
        ELSE [pc |-> "done", result |-> Restricted(obj, located.ret, config)]

\* BestCell with one cell for all the calls, as a module-level variable
\* would be.
BestCell_shared(c) == 1

\* The cell that holds most_restrictive of call c: a local variable of the
\* invocation (line 118), so a cell of its own.
BestCell(c) == c

\* Documents of a root that is marked U, marked TS or unmarked and a child
\* that is REL-marked, marked TS or marked as extract_ism marks it.
PairDocuments ==
    {Build(1, 2, par, mk) :
        par \in Parents(2),
        mk \in {f \in [1..2 -> DocMarkings \cup {Absent}] :
                  /\ f[1] \in {mPlainU, mTS, Absent}
                  /\ f[2] \in {mRelOneU, mTS, mPartial}}}

\* A call before its first step.
NewCall(obj) ==
    [obj |-> obj, pc |-> "idle", stack |-> <<>>, ism |-> None, result |-> None]

InitPair ==
    /\ policy \in DocPolicies
    /\ calls \in {[c \in 1..2 |-> NewCall(d[c])] :
                     d \in {e \in [1..2 -> PairDocuments] : e[1] # e[2]}}
    /\ cells = [c \in 1..2 |-> None]
    /\ standard_object = None
    /\ first_object = None
    /\ pc = "off"
    /\ stack = <<>>
    /\ trail = <<>>
    /\ popped = <<>>
    /\ most_restrictive = None
    /\ most_restrictive_ism = None
    /\ early = FALSE
    /\ result = None
    /\ round = 1
    /\ first_result = None
    /\ marking = None
    /\ verdict = "unused"
    /\ ism_a = None
    /\ ism_b = None
    /\ ism_c = None
    /\ answer = "unused"
    /\ standard_objects = <<>>
    /\ position = 0
    /\ processed_objects = <<>>
    /\ returned = None

PairFrame == UNCHANGED <<policy, docvars, marking, verdict, cmpvars, batchvars>>

\* Call c enters find_most_restrictive_valid_ism, lines 118-119.
PairCall(c) ==
    /\ calls[c].pc = "idle"
    /\ calls' = [calls EXCEPT ![c].pc = "loop", ![c].stack = <<calls[c].obj>>]
    /\ cells' = [cells EXCEPT ![BestCell(c)] = None]
    /\ PairFrame

\* One iteration of the loop of call c, lines 121-141.
PairLoopStep(c) ==
    /\ calls[c].pc = "loop"
    /\ calls[c].stack # <<>>
    /\ LET r == LoopBody(calls[c].stack, cells[BestCell(c)], policy)
       IN  /\ cells' = [cells EXCEPT ![BestCell(c)] = r.best]
           /\ calls' = [calls EXCEPT
                  ![c].stack = r.stack,
                  ![c].ism = IF r.ctl = "return" THEN r.ret ELSE @,
                  ![c].pc = CASE r.ctl = "continue" -> "loop"
                              [] r.ctl = "return"   -> "located"
                              [] r.ctl = "raise"    -> "raised"]
    /\ PairFrame

\* The stack of call c is empty: line 143.
PairLoopExit(c) ==
    /\ calls[c].pc = "loop"
    /\ calls[c].stack = <<>>
    /\ calls' = [calls EXCEPT ![c].ism = cells[BestCell(c)], ![c].pc = "located"]
    /\ UNCHANGED cells
    /\ PairFrame

\* Lines 168-193 of call c.
PairRestrict(c) ==
    /\ calls[c].pc = "located"
    /\ IF Truthy(calls[c].ism) /\ process_item_raises(calls[c].obj, policy)
       THEN calls' = [calls EXCEPT ![c].pc = "raised"]
       ELSE calls' = [calls EXCEPT
                ![c].pc = "done",
                ![c].result = Restricted(calls[c].obj, calls[c].ism, policy)]
    /\ UNCHANGED cells
    /\ PairFrame

NextPair ==
    \E c \in 1..2 :
        PairCall(c) \/ PairLoopStep(c) \/ PairLoopExit(c) \/ PairRestrict(c)

SpecPair == InitPair /\ [][NextPair]_vars

\* ------------------------------------------------------------ process_objects

MaxObjects == 3

\* The ACMs of the records: marked U with a banner and dissemination
\* controls, marked TS, and one that has only a classification.
acmU ==
    Dict(<<Ent("banner", Str(U)), Ent("classif", Str(U)),
           Ent("dissem_ctrls", EmptyList)>>)

acmTS ==
    Dict(<<Ent("banner", Str(TS)), Ent("classif", Str(TS)),
           Ent("dissem_ctrls", EmptyList)>>)

acmBare == Dict(<<Ent("classif", Str(U))>>)

\* The measurement mappings of a location (altitude and elevation).
Measurement ==
    Dict(<<Ent("value", None), Ent("quality", None), Ent("error", None),
           Ent("units", Dict(<<Ent("value", None)>>))>>)

\* What parse_location returns for a record that has a location with this
\* ACM; None for a record without one.
parse_location(acm) ==
    IF acm = Absent THEN None
    ELSE Dict(<<Ent("ism", extract_ism(acm)),
                Ent("id", None),
                Ent("timestamp", None),
                Ent("latitude", Num(1)),
                Ent("longitude", Num(0)),
                Ent("altitude", Measurement),
                Ent("elevation", Measurement),
                Ent("derivation", None),
                Ent("quality", None),
                Ent("locationName", None)>>)

\* The equipment container after build_standard_object: empty, or with one
\* mapped attribute, wrapped with the marking of its ACM.
Equipment(acm) ==
    IF acm = Absent THEN EmptyDict
    ELSE Dict(<<Ent("field",
                    Dict(<<Ent("value", Str(<<"v">>)),
                           Ent("ism", extract_ism(acm))>>))>>)

\* What transform_source_object returns for a record with the ACM acm, a
\* location marked by locAcm and an equipment attribute marked by attrAcm.
transform_source_object(acm, locAcm, attrAcm) ==
    Dict(<<Ent("version", None),
           Ent("overallClassification", extract_ism(acm)),
           Ent("id", Str(<<"i">>)),
           Ent("name", None),
           Ent("createdDate", None),
           Ent("lastUpdatedDate", None),
           Ent("excerciseIndicator", None),
           Ent("location", parse_location(locAcm)),
           Ent("maritimeMetadata", EmptyDict),
           Ent("landMetadata", EmptyDict),
           Ent("equipment", Equipment(attrAcm)),
           Ent("unit", EmptyDict),
           Ent("ontology", EmptyDict),
           Ent("facility", EmptyDict),
           Ent("provenance", EmptyDict)>>)

\* The standard objects of the preprocessed records, and {}, which
\* transform_source_object returns when it fails.
StandardObjects ==
    {transform_source_object(acmU, locAcm, attrAcm) :
        locAcm \in {Absent, acmU, acmTS},
        attrAcm \in {Absent, acmU, acmBare}}
    \cup {EmptyDict}

array_containers == <<"location", "equipment", "provenance">>

RECURSIVE FixContainers(_, _)
\* The inner loop of fix_container_types on one object, from container i on.
FixContainers(obj, i) ==
    IF i > Len(array_containers) THEN obj
    ELSE LET container_name == array_containers[i]
             value == DictGet(obj, container_name, None)
         IN  IF HasKey(obj, container_name) /\ isinstance_dict(value)
             THEN FixContainers(
                      DictSet(obj, container_name,
                              IF Truthy(value) THEN List(<<value>>)
                              ELSE EmptyList),
                      i + 1)
             ELSE FixContainers(obj, i + 1)

\* fix_container_types: the mappings under location, equipment and
\* provenance of every object become sequences.
fix_container_types(objects) ==
    [i \in DOMAIN objects |-> FixContainers(objects[i], 1)]

\* AfterObject with the try statement around the whole loop: an exception
\* ends the loop.
AfterObject_raise_ends(outcome, pos, n) ==
    IF outcome.pc = "raised" THEN n ELSE pos + 1

\* The position of the loop after the object at position pos + 1 of n: the
\* except clause is inside the loop, so the next object comes whatever the
\* outcome was.
AfterObject(outcome, pos, n) == pos + 1

InitBatch ==
    /\ policy \in DocPolicies
    /\ standard_objects \in
           UNION {[1..n -> StandardObjects] : n \in 0..MaxObjects}
    /\ position = 0
    /\ processed_objects = <<>>
    /\ returned = None
    /\ calls = <<>>
    /\ cells = <<>>
    /\ standard_object = None
    /\ first_object = None
    /\ pc = "off"
    /\ stack = <<>>
    /\ trail = <<>>
    /\ popped = <<>>
    /\ most_restrictive = None
    /\ most_restrictive_ism = None
    /\ early = FALSE
    /\ result = None
    /\ round = 1
    /\ first_result = None
    /\ marking = None
    /\ verdict = "unused"
    /\ ism_a = None
    /\ ism_b = None
    /\ ism_c = None
    /\ answer = "unused"

\* One iteration of the loop of process_objects: the object is restricted
\* and appended unless the result is None or an exception was raised.
ProcessObject ==
    /\ returned = None
    /\ position < Len(standard_objects)
    /\ LET outcome == apply_restrictions(standard_objects[position + 1], policy)
       IN  /\ processed_objects' =
                  IF outcome.pc = "done" /\ outcome.result # None
                  THEN Append(processed_objects, outcome.result)
                  ELSE processed_objects
           /\ position' = AfterObject(outcome, position, Len(standard_objects))
    /\ UNCHANGED <<standard_objects, returned, policy, docvars, marking,
                   verdict, cmpvars, pairvars>>

\* The loop is over: fix_container_types rewrites the objects of the list
\* and the list is returned.
ReturnObjects ==
    /\ returned = None
    /\ position >= Len(standard_objects)
    /\ processed_objects' = fix_container_types(processed_objects)
    /\ returned' = List(processed_objects')
    /\ UNCHANGED <<standard_objects, position, policy, docvars, marking,
                   verdict, cmpvars, pairvars>>

NextBatch == ProcessObject \/ ReturnObjects

SpecBatch == InitBatch /\ [][NextBatch]_vars

\* ------------------------------------------------- vocabulary of the claims

\* The children of a value, in order.
Kids(v) ==
    CASE v.t = "dict" -> [i \in DOMAIN v.kv |-> v.kv[i].v]
      [] v.t = "list" -> v.items
      [] OTHER        -> <<>>

RECURSIVE Paths(_)
\* The places of a document: a path is the sequence of child positions from
\* the root.
Paths(v) ==
    {<<>>} \cup UNION {{<<i>> \o q : q \in Paths(Kids(v)[i])} : i \in DOMAIN Kids(v)}

RECURSIVE NodeAt(_, _)
NodeAt(v, path) ==
    IF path = <<>> THEN v ELSE NodeAt(Kids(v)[Head(path)], Tail(path))

\* A mapping node that has an "ism" key.
Marked(nd) == isinstance_dict(nd) /\ HasKey(nd, "ism")

IsmOf(nd) == DictGet(nd, "ism", None)

\* A mapping node whose marking is forbidden under cfg.
ForbiddenNode(nd, cfg) == Marked(nd) /\ is_classif_too_high(IsmOf(nd), cfg)

\* A mapping node whose marking is present (not None, not empty) and not
\* forbidden under cfg.
AdmissibleNode(nd, cfg) ==
    Marked(nd) /\ Truthy(IsmOf(nd)) /\ ~is_classif_too_high(IsmOf(nd), cfg)

\* apply_restrictions returned a document.
Returned == pc = "done" /\ isinstance_dict(result)

\* ------------------------------- the redaction run, markings of every shape

MaxShapeNodes == 2

\* Values of an "ism" key that are not mappings: strings, numbers, booleans
\* and sequences, empty or zero ones among them.
MalformedMarkings ==
    {EmptyStr, Str(SEC), EmptyList, StrList(<<SEC>>), Num(0), Num(1),
     Bool(FALSE), Bool(TRUE)}

\* The value of some "ism" key of the document is not a mapping.
HasMalformed(doc) ==
    \E q \in Paths(doc) :
        /\ Marked(NodeAt(doc, q))
        /\ IsmOf(NodeAt(doc, q)) \in MalformedMarkings

\* Documents whose nodes have no "ism" key or have one whose value is None,
\* {}, a marking (U or TS) or not a mapping.
ShapeDocuments ==
    UNION {{Build(1, n, par, mk) :
               par \in Parents(n),
               mk \in [1..n -> MalformedMarkings
                                  \cup {Absent, None, EmptyDict, mPlainU, mTS}]} :
           n \in 1..MaxShapeNodes}

InitShapes ==
    /\ policy \in DocPolicies
    /\ standard_object \in ShapeDocuments
    /\ first_object = standard_object
    /\ pc = "idle"
    /\ stack = <<>>
    /\ trail = <<>>
    /\ popped = <<>>
    /\ most_restrictive = None
    /\ most_restrictive_ism = None
    /\ early = FALSE
    /\ result = None
    /\ round = 1
    /\ first_result = None
    /\ marking = None
    /\ verdict = "unused"
    /\ ism_a = None
    /\ ism_b = None
    /\ ism_c = None
    /\ answer = "unused"
    /\ calls = <<>>
    /\ cells = <<>>
    /\ standard_objects = <<>>
    /\ position = 0
    /\ processed_objects = <<>>
    /\ returned = None

SpecShapes == InitShapes /\ [][Next]_vars

\* ------------------------------------------------------------------- claims

\* C1: when apply_restrictions returns a document, every mapping node of the
\* input whose marking is forbidden is gone from it with its whole subtree
\* (its place holds None, or the place no longer exists because an ancestor
\* was removed), and no mapping node of the returned document carries a
\* forbidden marking.
C1_NoForbiddenSurvives ==
    Returned =>
        /\ \A q \in Paths(standard_object) :
               ForbiddenNode(NodeAt(standard_object, q), policy)
                   => (q \notin Paths(result) \/ NodeAt(result, q) = None)
        /\ \A q \in Paths(result) : ~ForbiddenNode(NodeAt(result, q), policy)

\* A document was returned from which a forbidden-marked node that had a
\* marked child below it was removed.
C1_Witness ==
    /\ Returned
    /\ \E q \in Paths(standard_object) :
           /\ q # <<>>
           /\ ForbiddenNode(NodeAt(standard_object, q), policy)
           /\ \E i \in DOMAIN Kids(NodeAt(standard_object, q)) :
                  Marked(NodeAt(standard_object, q \o <<i>>))
           /\ q \in Paths(result)
           /\ NodeAt(result, q) = None

\* C2: the overallClassification of a returned document is the marking of a
\* mapping node that is still present in the returned document.
C2_StampedMarkingSurvives ==
    Returned =>
        \E q \in Paths(result) :
            /\ Marked(NodeAt(result, q))
            /\ IsmOf(NodeAt(result, q)) = DictGet(result, "overallClassification", None)

\* C3: the marking find_most_restrictive_valid_ism returns is most
\* restrictive: no admissible marking of the tree is more restrictive than
\* it.
C3_LocatedIsMostRestrictive ==
    (pc = "located" /\ most_restrictive_ism # None) =>
        \A q \in Paths(standard_object) :
            AdmissibleNode(NodeAt(standard_object, q), policy)
                => ~is_more_restrictive(IsmOf(NodeAt(standard_object, q)),
                                        most_restrictive_ism, policy)

\* C4: the best-so-far candidate at every step of the traversal, the
\* returned marking and the stamped overallClassification are each None or
\* a marking that is not forbidden.
C4_BestNeverForbidden ==
    /\ ~is_classif_too_high(most_restrictive, policy)
    /\ ~is_classif_too_high(most_restrictive_ism, policy)
    /\ Returned =>
           ~is_classif_too_high(DictGet(result, "overallClassification", None), policy)

\* A marking was located in a document that also holds a forbidden-marked
\* node, which the traversal met and discarded.
C4_Witness ==
    /\ pc = "located"
    /\ most_restrictive_ism # None
    /\ \E q \in Paths(standard_object) :
           ForbiddenNode(NodeAt(standard_object, q), policy)

RECURSIVE Mirror(_)
\* The document with the entries of every mapping and the elements of every
\* sequence in the opposite order; a marking (the value of an "ism" key) is
\* kept as it is.
Mirror(v) ==
    CASE v.t = "dict" ->
           Dict([i \in DOMAIN v.kv |->
                   LET e == v.kv[Len(v.kv) + 1 - i]
                   IN  Ent(e.k, IF e.k = "ism" THEN e.v ELSE Mirror(e.v))])
      [] v.t = "list" ->
           List([i \in DOMAIN v.items |-> Mirror(v.items[Len(v.items) + 1 - i])])
      [] OTHER -> v

\* C5: apply_restrictions on a document it returned, under the same policy,
\* returns that document again (the same overallClassification, nothing
\* further removed).
C5_Idempotent ==
    (round = 2 /\ pc = "done") => result = first_result

\* C6: find_most_restrictive_valid_ism returns the same marking for a
\* document and for the same document with its sibling keys and sequence
\* elements in the opposite order.
C6_OrderIndependent ==
    (round = 1 /\ pc = "located") =>
        LET other == find_most_restrictive_valid_ism(Mirror(standard_object), policy)
        IN  other.ctl = "return" /\ other.ret = most_restrictive_ism

\* C7: once find_most_restrictive_valid_ism has returned None, the next step
\* of apply_restrictions is its return of None, and not an exception.
C7_NoneWhenNothingLocated ==
    [][(pc = "located" /\ most_restrictive_ism = None)
          => (pc' = "done" /\ result' = None)]_vars

\* apply_restrictions returned None for a document in which every marking is
\* forbidden.
C7_Witness ==
    /\ pc = "done"
    /\ most_restrictive_ism = None
    /\ result = None
    /\ \E q \in Paths(standard_object) :
           ForbiddenNode(NodeAt(standard_object, q), policy)

\* C8: find_most_restrictive_valid_ism returns None exactly when no mapping
\* node of the tree, at any depth, carries a present marking that is not
\* forbidden.
C8_NoneIffNoAdmissible ==
    pc = "located" =>
        (most_restrictive_ism = None
            <=> ~\E q \in Paths(standard_object) :
                    AdmissibleNode(NodeAt(standard_object, q), policy))

\* A marking was located whose node lies inside a sequence, below a node
\* that carries no admissible marking.
C8_Witness ==
    /\ pc = "located"
    /\ round = 1
    /\ most_restrictive_ism # None
    /\ ~AdmissibleNode(standard_object, policy)
    /\ HasKey(standard_object, "items")
    /\ \A q \in Paths(standard_object) :
           AdmissibleNode(NodeAt(standard_object, q), policy)
               => Len(q) >= 2 /\ isinstance_list(NodeAt(standard_object, <<q[1]>>))

\* The strings of a marking's list field; a missing or None field has none.
FieldStrings(m, key) ==
    LET v == DictGet(m, key, EmptyList)
    IN  IF v.t = "list" THEN {v.items[i].s : i \in DOMAIN v.items} ELSE {}

\* The characters of a marking's banner; a missing or None banner is empty.
BannerOf(m) ==
    LET v == DictGet(m, "banner", EmptyStr)
    IN  IF v.t = "str" THEN v.s ELSE <<>>

Terms(cfg) == {cfg.forbidden_terms[i] : i \in DOMAIN cfg.forbidden_terms}

\* The four conditions of the forbidden-marking test; a term occurs in a
\* banner when it does with letter case ignored.
TopTier(m) == DictGet(m, "classification", None) = Str(TS)

SciHit(m, cfg) ==
    FieldStrings(m, "sciControls")
        \cap {cfg.forbidden_sci[i] : i \in DOMAIN cfg.forbidden_sci} # {}

ControlHit(m, cfg) ==
    FieldStrings(m, "disseminationControls")
        \cap {cfg.forbidden_controls[i] : i \in DOMAIN cfg.forbidden_controls} # {}

TermHit(m, cfg) ==
    \E term \in Terms(cfg) : Contains(upper(term), upper(BannerOf(m)))

\* C9: a marking whose classification is TS is forbidden whatever its other
\* fields are (present, missing or None) and whatever the policy forbids.
C9_TopTierForbidden ==
    (verdict # "pending" /\ isinstance_dict(marking) /\ TopTier(marking))
        => verdict = "true"

\* A TS marking whose sciControls, disseminationControls and banner are None
\* was found forbidden under a policy that forbids nothing else.
C9_Witness ==
    /\ verdict = "true"
    /\ isinstance_dict(marking)
    /\ TopTier(marking)
    /\ DictGet(marking, "sciControls", EmptyList) = None
    /\ DictGet(marking, "disseminationControls", EmptyList) = None
    /\ DictGet(marking, "banner", EmptyStr) = None
    /\ policy.forbidden_sci = <<>>
    /\ policy.forbidden_controls = <<>>
    /\ policy.forbidden_terms = <<>>

\* C10: when is_classif_too_high returns, it returns true exactly when the
\* marking is present and meets at least one of the four conditions.
C10_ExactlyFourConditions ==
    verdict \in {"true", "false"} =>
        (verdict = "true"
            <=> /\ Truthy(marking)
                /\ \/ TopTier(marking)
                   \/ SciHit(marking, policy)
                   \/ ControlHit(marking, policy)
                   \/ TermHit(marking, policy))

\* C11: the forbidden-term test is case-insensitive: whenever
\* is_classif_too_high returns for a present marking whose banner contains a
\* forbidden term of the policy when the letter case of both is ignored, it
\* returns true.
C11_TermScanIgnoresCase ==
    (verdict \in {"true", "false"} /\ Truthy(marking) /\ TermHit(marking, policy))
        => verdict = "true"

\* C12: is_classif_too_high is total: it never raises, whatever fields of
\* the marking are missing or None.
C12_ForbiddenTestTotal ==
    verdict # "raise"

\* ---------------------------------- vocabulary of the comparator's claims

HasFgi(m) == \E c \in FieldStrings(m, "sciControls") : startswith(c, FGI)

HasNoforn(m) == NOFORN \in FieldStrings(m, "disseminationControls")

HasRel(m) == REL \in FieldStrings(m, "disseminationControls")

ReleasableTo(m) == FieldStrings(m, "releasableTo")

\* The entities a marking is releasable to that are special groups.
SpecialOf(m, cfg) ==
    ReleasableTo(m) \cap {cfg.special_groups[i] : i \in DOMAIN cfg.special_groups}

\* The ordinal of a classification symbol: 0 when the table lacks it.
OrdinalOf(symbol, cfg) ==
    IF symbol \in DOMAIN cfg.classifications THEN cfg.classifications[symbol] ELSE 0

\* The ordinal of a marking when a missing classification ranks 0.
OrdinalMissingLowest(m, cfg) ==
    IF HasKey(m, "classification")
    THEN OrdinalOf(DictGet(m, "classification", None).s, cfg)
    ELSE 0

\* The ordinal of a marking when a missing classification is taken as "U".
Ordinal(m, cfg) ==
    IF HasKey(m, "classification")
    THEN OrdinalOf(DictGet(m, "classification", None).s, cfg)
    ELSE OrdinalOf(U, cfg)

\* Two present markings tie on the FGI and the NOFORN tiers.
UpperTie(a, b) ==
    /\ Truthy(a)
    /\ Truthy(b)
    /\ HasFgi(a) = HasFgi(b)
    /\ HasNoforn(a) = HasNoforn(b)

\* The tier of the cascade that decides the comparison of two markings.
Tier(a, b) ==
    IF ~Truthy(a) \/ ~Truthy(b) THEN "absent"
    ELSE IF HasFgi(a) # HasFgi(b) THEN "fgi"
    ELSE IF HasNoforn(a) # HasNoforn(b) THEN "noforn"
    ELSE IF HasRel(a) /\ HasRel(b) THEN "rel"
    ELSE "classification"

\* The calls have been made.
Answered == answer # Pending

\* ------------------------------------------------ claims on the comparator

\* C13: when is_more_restrictive(a, b) and is_more_restrictive(b, c) are both
\* true and were decided at the same tier of the cascade,
\* is_more_restrictive(a, c) is true.
C13_TransitiveOnSameTierLinks ==
    (/\ Answered
     /\ answer.ab = "true"
     /\ answer.bc = "true"
     /\ Tier(ism_a, ism_b) = Tier(ism_b, ism_c))
        => answer.ac = "true"

\* C13, amended: when is_more_restrictive(a, b) and is_more_restrictive(b, c)
\* are both true and the three comparisons of a with b, of b with c and of a
\* with c are decided at the same tier of the cascade,
\* is_more_restrictive(a, c) is true.
C13_TransitiveWithinOneTier ==
    (/\ Answered
     /\ answer.ab = "true"
     /\ answer.bc = "true"
     /\ Tier(ism_a, ism_b) = Tier(ism_b, ism_c)
     /\ Tier(ism_a, ism_c) = Tier(ism_a, ism_b))
        => answer.ac = "true"

\* A chain of three markings whose three comparisons are decided at the
\* classification tier, the first and the last of them carrying REL.
C13_Witness ==
    /\ Answered
    /\ answer.ab = "true"
    /\ answer.bc = "true"
    /\ answer.ac = "true"
    /\ Tier(ism_a, ism_b) = "classification"
    /\ Tier(ism_b, ism_c) = "classification"
    /\ Tier(ism_a, ism_c) = "classification"
    /\ HasRel(ism_a) # HasRel(ism_c)

\* C14: is_more_restrictive(a, a) is false for every marking a and policy.
C14_Irreflexive ==
    Answered => answer.aa = "false"

\* A present marking that has a classification and no REL, so that the
\* classification tier compares it with itself.
C14_Witness ==
    /\ Answered
    /\ answer.aa = "false"
    /\ Truthy(ism_a)
    /\ ~HasRel(ism_a)
    /\ HasKey(ism_a, "classification")

C16_RelTier ==
    (Answered /\ UpperTie(ism_a, ism_b) /\ HasRel(ism_a) /\ HasRel(ism_b)) =>
        /\ (/\ SpecialOf(ism_a, policy) # SpecialOf(ism_b, policy)
            /\ Cardinality(SpecialOf(ism_a, policy))
                   < Cardinality(SpecialOf(ism_b, policy)))
               => (answer.ab = "true" /\ answer.ba = "false")
        /\ (/\ SpecialOf(ism_a, policy) = SpecialOf(ism_b, policy)
            /\ Cardinality(ReleasableTo(ism_a)) < Cardinality(ReleasableTo(ism_b)))
               => (answer.ab = "true" /\ answer.ba = "false")

\* The marking with the smaller special-group intersection is more
\* restrictive although its releasableTo set is the larger one.
C16_Witness ==
    /\ Answered
    /\ UpperTie(ism_a, ism_b)
    /\ HasRel(ism_a)
    /\ HasRel(ism_b)
    /\ Cardinality(SpecialOf(ism_a, policy)) < Cardinality(SpecialOf(ism_b, policy))
    /\ Cardinality(ReleasableTo(ism_a)) > Cardinality(ReleasableTo(ism_b))
    /\ answer.ab = "true"

\* C17: of two markings that tie on FGI and NOFORN, both carry REL and tie on
\* the REL tier too (equal special-group intersections, releasableTo sets of
\* equal size), the one with the higher classification ordinal is more
\* restrictive.
C17_RelTieFallsToClassification ==
    (/\ Answered
     /\ UpperTie(ism_a, ism_b)
     /\ HasRel(ism_a)
     /\ HasRel(ism_b)
     /\ SpecialOf(ism_a, policy) = SpecialOf(ism_b, policy)
     /\ Cardinality(ReleasableTo(ism_a)) = Cardinality(ReleasableTo(ism_b)))
        => (answer.ab = "true" <=> Ordinal(ism_a, policy) > Ordinal(ism_b, policy))

\* C18: of two markings that tie on FGI and NOFORN and of which exactly one
\* carries REL, the first is more restrictive exactly when its
\* classification ordinal is the higher one, whatever their releasableTo.
C18_OneRelSkipsRelTier ==
    (Answered /\ UpperTie(ism_a, ism_b) /\ HasRel(ism_a) # HasRel(ism_b))
        => (answer.ab = "true" <=> Ordinal(ism_a, policy) > Ordinal(ism_b, policy))

\* A marking with REL and the smaller releasableTo set is not more
\* restrictive than a marking without REL of the same classification.
C18_Witness ==
    /\ Answered
    /\ UpperTie(ism_a, ism_b)
    /\ HasRel(ism_a)
    /\ ~HasRel(ism_b)
    /\ Cardinality(ReleasableTo(ism_a)) < Cardinality(ReleasableTo(ism_b))
    /\ Ordinal(ism_a, policy) = Ordinal(ism_b, policy)
    /\ answer.ab = "false"
    /\ answer.ba = "false"

\* C19: when the classification tier is reached, is_more_restrictive(a, b)
\* does not raise and is true exactly when the ordinal of a is higher than
\* the ordinal of b, a symbol that the table lacks and a missing
\* classification ranking 0.
C19_ClassificationTierMissingLowest ==
    (Answered /\ Tier(ism_a, ism_b) = "classification") =>
        /\ answer.ab \in {"true", "false"}
        /\ answer.ab = "true"
               <=> OrdinalMissingLowest(ism_a, policy) > OrdinalMissingLowest(ism_b, policy)

\* C19, amended: when the classification tier is reached,
\* is_more_restrictive(a, b) does not raise and is true exactly when the
\* ordinal of a is higher than the ordinal of b, a symbol that the table
\* lacks ranking 0 and a missing classification ranking as "U" does.
C19_ClassificationTier ==
    (Answered /\ Tier(ism_a, ism_b) = "classification") =>
        /\ answer.ab \in {"true", "false"}
        /\ answer.ab = "true" <=> Ordinal(ism_a, policy) > Ordinal(ism_b, policy)

\* Under a table that ranks "U" above 0, of a marking classified "U" and a
\* marking without classification neither is more restrictive.
C19_Witness ==
    /\ Answered
    /\ Tier(ism_a, ism_b) = "classification"
    /\ HasKey(ism_a, "classification")
    /\ ~HasKey(ism_b, "classification")
    /\ Ordinal(ism_a, policy) = Ordinal(ism_b, policy)
    /\ Ordinal(ism_a, policy) > 0
    /\ answer.ab = "false"
    /\ answer.ba = "false"

\* ------------------------------------------------- claims on the stamping

\* C20: a document that apply_restrictions returns has one top-level
\* overallClassification and its value is the marking that
\* find_most_restrictive_valid_ism returned, whatever overallClassification
\* the input had.
C20_StampIsLocatedMarking ==
    Returned =>
        /\ Cardinality({i \in DOMAIN result.kv :
                           result.kv[i].k = "overallClassification"}) = 1
        /\ \A i \in DOMAIN result.kv :
               result.kv[i].k = "overallClassification"
                   => result.kv[i].v = most_restrictive_ism

\* A document was returned whose input already had an overallClassification
\* that was another marking than the located one.
C20_Witness ==
    /\ Returned
    /\ HasKey(standard_object, "overallClassification")
    /\ Truthy(DictGet(standard_object, "overallClassification", None))
    /\ DictGet(standard_object, "overallClassification", None) # most_restrictive_ism
    /\ DictGet(result, "overallClassification", None) = most_restrictive_ism

\* ------------------------------------------------- claims on the redactor

\* The node at path q of a document lies inside a forbidden-marked mapping.
InsideForbidden(doc, q, cfg) ==
    \E k \in 0..(Len(q) - 1) : ForbiddenNode(NodeAt(doc, SubSeq(q, 1, k)), cfg)

\* The node at path q is the root's overallClassification or lies in it.
InRootStamp(doc, q) ==
    /\ q # <<>>
    /\ isinstance_dict(doc)
    /\ doc.kv[q[1]].k = "overallClassification"

KeysOf(d) == [i \in DOMAIN d.kv |-> d.kv[i].k]

NotStampKey(key) == key # "overallClassification"

\* Two nodes have the same content: equal scalars, mappings with the same
\* keys in the same order (at the root, apart from overallClassification),
\* sequences of the same length.
SameContent(a, b, atRoot) ==
    CASE a.t = "dict" ->
           /\ b.t = "dict"
           /\ IF atRoot
              THEN SelectSeq(KeysOf(a), NotStampKey) = SelectSeq(KeysOf(b), NotStampKey)
              ELSE KeysOf(a) = KeysOf(b)
      [] a.t = "list" -> b.t = "list" /\ Len(a.items) = Len(b.items)
      [] OTHER -> a = b

\* C21: in a returned document every node of the input that is neither a
\* forbidden-marked mapping nor inside one (nor the root's
\* overallClassification) is at the same path with the same content:
\* scalars identical, mappings with the same keys apart from the root's
\* overallClassification, sequences with the same length.
C21_PruningChangesNothingElse ==
    Returned =>
        \A q \in Paths(standard_object) :
            (/\ ~ForbiddenNode(NodeAt(standard_object, q), policy)
             /\ ~InsideForbidden(standard_object, q, policy)
             /\ ~InRootStamp(standard_object, q))
                => /\ q \in Paths(result)
                   /\ SameContent(NodeAt(standard_object, q), NodeAt(result, q),
                                  q = <<>>)

\* A document was returned from which a forbidden-marked node was removed
\* and in which a sibling of that node with an admissible marking is as it
\* was.
C21_Witness ==
    /\ Returned
    /\ \E q \in Paths(standard_object), r \in Paths(standard_object) :
           /\ q # <<>>
           /\ Len(r) = Len(q)
           /\ r # q
           /\ SubSeq(r, 1, Len(r) - 1) = SubSeq(q, 1, Len(q) - 1)
           /\ ForbiddenNode(NodeAt(standard_object, q), policy)
           /\ ~InsideForbidden(standard_object, q, policy)
           /\ AdmissibleNode(NodeAt(standard_object, r), policy)
           /\ NodeAt(result, q) = None
           /\ NodeAt(result, r) = NodeAt(standard_object, r)

\* C22: a call of apply_restrictions, find_most_restrictive_valid_ism
\* within it, leaves its arguments as they were, whether it returns a
\* document, returns None or raises: no step changes the input document or
\* the policy (the document changes only when a new call is given another
\* one).
C22_ArgumentsUnchanged ==
    [][/\ policy' = policy
       /\ round' = round => standard_object' = standard_object]_vars

\* The first call returned a document that differs from its input, which
\* is as it was before the call.
C22_Witness ==
    /\ Returned
    /\ round = 1
    /\ standard_object = first_object
    /\ \E q \in Paths(standard_object) :
           ForbiddenNode(NodeAt(standard_object, q), policy)
    /\ DictGet(result, "overallClassification", None) = most_restrictive_ism
    /\ ~HasKey(standard_object, "overallClassification")

\* C23: on a document in which the value of some "ism" key is a string, a
\* number, a boolean or a sequence, find_most_restrictive_valid_ism does not
\* return and apply_restrictions does not return: they end in an error.
C23_MalformedFailsFast ==
    HasMalformed(standard_object) => pc \notin {"located", "done"}

\* C24: of two calls of apply_restrictions on different documents under one
\* policy whose steps interleave in any way, each ends as it does when it
\* runs alone and returns what it returns then; no step changes the policy.
C24_ConcurrentCallsIndependent ==
    \A c \in 1..2 :
        calls[c].pc \in {"done", "raised"}
            => [pc |-> calls[c].pc, result |-> calls[c].result]
                   = apply_restrictions(calls[c].obj, policy)

\* The first call has returned a document while the second, on another
\* document, is in its loop with a best-so-far candidate; the second goes
\* on to return another document.
C24_Witness ==
    /\ calls[1].pc = "done"
    /\ isinstance_dict(calls[1].result)
    /\ calls[2].pc = "loop"
    /\ calls[2].stack # <<>>
    /\ cells[2] # None
    /\ cells[2] # calls[1].ism
    /\ apply_restrictions(calls[2].obj, policy).pc = "done"

\* ------------------------------------------------ claims on the traversal

\* The paths popped so far.
PoppedPaths == {popped[i] : i \in DOMAIN popped}

\* C25: the loop of find_most_restrictive_valid_ism ends after no more
\* iterations than the document has nodes, and when it has ended every node
\* of the document has been popped from the stack exactly once.
C25_EveryNodePoppedOnce ==
    /\ pc # "off" => Len(popped) <= Cardinality(Paths(standard_object))
    /\ pc \in {"located", "done", "raised"} =>
           /\ PoppedPaths = Paths(standard_object)
           /\ Len(popped) = Cardinality(Paths(standard_object))

\* C25 on the runs in which the loop does not raise.
C25_EveryNodePoppedOnceUnlessRaised ==
    /\ pc # "off" => Len(popped) <= Cardinality(Paths(standard_object))
    /\ pc \in {"located", "done"} =>
           /\ PoppedPaths = Paths(standard_object)
           /\ Len(popped) = Cardinality(Paths(standard_object))

\* C26: the return inside the loop of find_most_restrictive_valid_ism
\* (line 131, for a candidate classified TS) is never executed.
C26_EarlyReturnUnreachable ==
    ~early

\* The loop has ended, not by the return inside it, after popping a node
\* whose marking is classified TS.
C26_Witness ==
    /\ pc = "located"
    /\ ~early
    /\ \E q \in PoppedPaths :
           /\ Marked(NodeAt(standard_object, q))
           /\ isinstance_dict(IsmOf(NodeAt(standard_object, q)))
           /\ TopTier(IsmOf(NodeAt(standard_object, q)))

\* ------------------------------------------------- claims on absent markings

\* A mapping node without a marking: it has no "ism" key, or the value of the
\* key is None or an empty mapping.
AbsentMarked(nd) ==
    /\ isinstance_dict(nd)
    /\ ~HasKey(nd, "ism") \/ IsmOf(nd) \in {None, EmptyDict}

\* C27: a mapping node that has no "ism" key, or whose "ism" value is None or
\* an empty mapping, is neither a candidate nor forbidden: when the locator
\* pops it the best marking so far stays as it was, nothing is raised and all
\* its children are pushed; and in a returned document every such node of the
\* input outside forbidden-marked mappings is still a mapping with the same
\* keys at the same place.
C27_AbsentMarkingNeitherCandidateNorForbidden ==
    [][/\ (pc = "loop" /\ stack # <<>> /\ AbsentMarked(stack[Len(stack)]))
           => /\ pc' = "loop"
              /\ most_restrictive' = most_restrictive
              /\ stack' = SubSeq(stack, 1, Len(stack) - 1)
                              \o Kids(stack[Len(stack)])
       /\ (pc' = "done" /\ isinstance_dict(result'))
           => \A q \in Paths(standard_object) :
                  (/\ AbsentMarked(NodeAt(standard_object, q))
                   /\ ~InsideForbidden(standard_object, q, policy)
                   /\ ~InRootStamp(standard_object, q))
                  => /\ q \in Paths(result')
                     /\ SameContent(NodeAt(standard_object, q),
                                    NodeAt(result', q), q = <<>>)]_vars

\* A document was returned whose root has an "ism" key with the value None
\* and a child marked U, which became the overallClassification.
C27_Witness ==
    /\ Returned
    /\ HasKey(standard_object, "ism")
    /\ IsmOf(standard_object) = None
    /\ most_restrictive_ism = mPlainU
    /\ \E i \in DOMAIN Kids(result) :
           /\ Marked(Kids(result)[i])
           /\ IsmOf(Kids(result)[i]) = mPlainU

\* None or the empty mapping.
AbsentOrEmpty(m) == m \in {None, EmptyDict}

\* C28: is_more_restrictive(a, b) and is_more_restrictive(b, a) are never
\* both true, and a call in which either argument is None or empty answers
\* false.
C28_Asymmetric ==
    Answered =>
        /\ ~(answer.ab = "true" /\ answer.ba = "true")
        /\ (AbsentOrEmpty(ism_a) \/ AbsentOrEmpty(ism_b))
               => (answer.ab = "false" /\ answer.ba = "false")
        /\ (AbsentOrEmpty(ism_a) \/ AbsentOrEmpty(ism_c)) => answer.ac = "false"
        /\ (AbsentOrEmpty(ism_b) \/ AbsentOrEmpty(ism_c)) => answer.bc = "false"
        /\ AbsentOrEmpty(ism_a) => answer.aa = "false"

\* a is more restrictive than b, b is not more restrictive than a, and the
\* calls with the empty mapping c answered false.
C28_Witness ==
    /\ Answered
    /\ answer.ab = "true"
    /\ answer.ba = "false"
    /\ ism_c = EmptyDict
    /\ answer.ac = "false"
    /\ answer.bc = "false"

\* ------------------------------------------- claims on a forbidden root

\* C29: when the root mapping is forbidden-marked, apply_restrictions returns
\* None, with no overallClassification, also when the locator found an
\* admissible marking in a descendant; when the locator found a marking and
\* the root mapping is not forbidden-marked, the result is a mapping that has
\* an overallClassification key.
C29_ForbiddenRootGivesNone ==
    pc \in {"done", "raised"} =>
        /\ ForbiddenNode(standard_object, policy)
               => (pc = "done" /\ result = None)
        /\ (/\ pc = "done"
            /\ Truthy(most_restrictive_ism)
            /\ isinstance_dict(standard_object)
            /\ ~ForbiddenNode(standard_object, policy))
               => /\ isinstance_dict(result)
                  /\ HasKey(result, "overallClassification")

\* The same for the calls that return: a call on a forbidden-marked root
\* that returns, returns None.
C29_ForbiddenRootGivesNoneUnlessRaised ==
    pc = "done" =>
        /\ ForbiddenNode(standard_object, policy) => result = None
        /\ (/\ Truthy(most_restrictive_ism)
            /\ isinstance_dict(standard_object)
            /\ ~ForbiddenNode(standard_object, policy))
               => /\ isinstance_dict(result)
                  /\ HasKey(result, "overallClassification")

\* The root was forbidden-marked, the locator found an admissible marking
\* below it, and None was returned.
C29_ForbiddenRootWithAdmissibleDescendant ==
    /\ pc = "done"
    /\ ForbiddenNode(standard_object, policy)
    /\ Truthy(most_restrictive_ism)
    /\ \E q \in Paths(standard_object) :
           /\ q # <<>>
           /\ AdmissibleNode(NodeAt(standard_object, q), policy)
           /\ IsmOf(NodeAt(standard_object, q)) = most_restrictive_ism
    /\ result = None

\* ------------------------------------------------ claims on process_objects

\* The outcomes of apply_restrictions on the standard objects, in order.
Outcomes ==
    [i \in DOMAIN standard_objects |->
        apply_restrictions(standard_objects[i], policy)]

\* The call returned a result that is not None.
GaveObject(outcome) == outcome.pc = "done" /\ outcome.result # None

\* The results of apply_restrictions that are not None, in input order.
RestrictedObjects ==
    LET kept == SelectSeq(Outcomes, GaveObject)
    IN  [i \in DOMAIN kept |-> kept[i].result]

\* process_objects returned.
BatchReturned == returned # None

====
